---- MODULE Spec2Model ----
(***************************************************************************)
(* The agent API of home-server-host (supabase/functions/agent-api) and    *)
(* the pool_contributors / pools relations it maintains, together with the *)
(* page handlers that write the same relations through the store.          *)
(***************************************************************************)
EXTENDS Integers, Sequences, FiniteSets, Bags, TLC

(* ---------------------------------------------------------------- bounds *)
\* The largest amount of a resource a request reports, and the last reading
\* of the clock.
MaxRes == 1
MaxTime == 2

(* ------------------------------------------------------------- universes *)
Users == {"u1", "u2"}
PoolIds == {"p1", "p2"}
\* The ids gen_random_uuid() hands out to pool_contributors rows.
ContributorIds == {"c1", "c2"}
Resources == {"cpu_cores", "ram_gb", "storage_gb"}
Relations == {"pools", "pool_contributors"}

\* A nullable numeric column (or JSON value) is a sequence of length <= 1:
\* <<>> is NULL/null, <<n>> the number n.
Null == <<>>
Num(n) == <<n>>
\* A JSON body is a function from the fields present to their values.
Has(body, f) == f \in DOMAIN body
EmptyBody == <<>>

\* JavaScript `x || 0` on a number or null.
OrZero(x) == IF x = Null \/ x = Num(0) THEN 0 ELSE x[1]
\* JavaScript `body.f || 0` on a field that may be absent.
FieldOrZero(body, f) == IF Has(body, f) THEN OrZero(body[f]) ELSE 0

VARIABLES
    pools,              \* relation public.pools
    pool_contributors,  \* relation public.pool_contributors
    unusedIds,          \* the ids the store has not yet generated
    now,                \* the clock `new Date()` reads
    response,           \* the response on its way to the agent, if any
    accessed,           \* the relations the handler that wrote it queried
    calls,              \* the handlers running statement by statement, per agent
    servers,            \* relation public.servers
    server_pool_assignments  \* relation public.server_pool_assignments

vars == <<pools, pool_contributors, unusedIds, now, response, accessed, calls,
          servers, server_pool_assignments>>

NoResponse == [status |-> 0, body |-> EmptyBody]

(* ------------------------------------------------------------- the store *)
\* PostgREST .single(): the row when exactly one matches, else no data (an error).
Single(rows) == IF Cardinality(rows) = 1 THEN rows ELSE {}

PoolsById(ps, id) == {p \in ps : p.id = id}
\* The invite-code lookup restricted to public pools.
PublicPoolsByInvite(ps, code) == {p \in ps : p.invite_code = code /\ p.is_public}
PoolsByInvite(ps, code) == {p \in ps : p.invite_code = code}
\* The existing-row lookup without its .eq('user_id', user.id).
ContributorsOfPool(cs, poolId, userId) == {c \in cs : c.pool_id = poolId}
ContributorsOf(cs, poolId, userId) ==
    {c \in cs : c.pool_id = poolId /\ c.user_id = userId}

\* pool_contributors without its UNIQUE(pool_id, user_id) constraint.
NoUniqueConstraint(cs, row) == FALSE

\* UNIQUE(pool_id, user_id) on pool_contributors.
ViolatesUnique(cs, row) ==
    \E c \in cs : c.pool_id = row.pool_id /\ c.user_id = row.user_id

\* INSERT of one row: refused when the uniqueness constraint is violated.
InsertContributor(cs, row) == IF ViolatesUnique(cs, row) THEN cs ELSE cs \cup {row}

\* UPDATE ... SET patch on the rows of `matched`.
ApplyPatch(row, patch) ==
    [f \in DOMAIN row |-> IF f \in DOMAIN patch THEN patch[f] ELSE row[f]]
UpdateContributors(cs, matched, patch) ==
    {IF c \in matched THEN ApplyPatch(c, patch) ELSE c : c \in cs}

\* Row-level policies of pools and pool_contributors (the pages act under them;
\* the agent API uses the service-role key and bypasses them).
IsPoolOwner(ps, poolId, uid) == \E p \in ps : p.id = poolId /\ p.owner_id = uid
CanViewPool(cs, p, uid) ==
    \/ p.owner_id = uid
    \/ \E c \in cs : c.pool_id = p.id /\ c.user_id = uid
    \/ p.is_public
CanInsertContributor(ps, row, uid) ==
    IsPoolOwner(ps, row.pool_id, uid) \/ uid = row.user_id
CanDeleteContributor(ps, row, uid) ==
    IsPoolOwner(ps, row.pool_id, uid) \/ uid = row.user_id

(* -------------------------------------------------- Pool Totals Aggregator *)
\* The aggregator's read without its .eq('status', 'online').
AllContributors(cs, poolId) == {c \in cs : c.pool_id = poolId}

\* The aggregator's read: the online rows of the pool.
OnlineContributors(cs, poolId) ==
    {c \in cs : c.pool_id = poolId /\ c.status = "online"}

\* The sum the aggregator's reduce computes over the rows it read.
RECURSIVE Reduce(_)
Reduce(rows) ==
    IF rows = {} THEN [total_cpu_cores |-> 0, total_ram_gb |-> 0, total_storage_gb |-> 0]
    ELSE LET c == CHOOSE r \in rows : TRUE
             acc == Reduce(rows \ {c})
         IN [total_cpu_cores |-> acc.total_cpu_cores + OrZero(c.cpu_cores),
             total_ram_gb |-> acc.total_ram_gb + OrZero(c.ram_gb),
             total_storage_gb |-> acc.total_storage_gb + OrZero(c.storage_gb)]

\* The aggregator's write without its .eq('id', poolId).
WriteTotalsEverywhere(ps, poolId, totals) ==
    {[p EXCEPT !.total_cpu_cores = totals.total_cpu_cores,
               !.total_ram_gb = totals.total_ram_gb,
               !.total_storage_gb = totals.total_storage_gb] : p \in ps}

\* The aggregator's write: UPDATE pools SET totals WHERE id = poolId.
WriteTotals(ps, poolId, totals) ==
    {IF p.id = poolId
       THEN [p EXCEPT !.total_cpu_cores = totals.total_cpu_cores,
                      !.total_ram_gb = totals.total_ram_gb,
                      !.total_storage_gb = totals.total_storage_gb]
       ELSE p : p \in ps}

updatePoolTotals(ps, cs, poolId) ==
    WriteTotals(ps, poolId, Reduce(OnlineContributors(cs, poolId)))

(* ---------------------------------------------------------- the agent API *)
Json(status, body) == [status |-> status, body |-> body]
Error(status, msg) == Json(status, [error |-> msg])

\* The store a handler runs against, and the time its `new Date()` reads.
Store(ps, cs, ids, t) ==
    [pools |-> ps, pool_contributors |-> cs, unusedIds |-> ids, now |-> t]

\* What a handler leaves behind: the two relations, the id generator, the
\* response, and the relations it queried on the way.
Outcome(ps, cs, ids, resp, acc) ==
    [pools |-> ps, pool_contributors |-> cs, unusedIds |-> ids,
     response |-> resp, accessed |-> acc]
\* A handler that answers without writing.
Answer(st, resp, acc) == Outcome(st.pools, st.pool_contributors, st.unusedIds, resp, acc)
\* The id the store generates for the next inserted row ("c9" once the model's
\* universe of ids is used up; the actions' guards keep such a row out).
FreshId(ids) == IF ids = {} THEN "c9" ELSE CHOOSE i \in ids : TRUE

\* JavaScript !body.pool_id and !body.contributor_id: an absent field and an
\* empty string are both falsy.
MissingPoolId(body) == ~Has(body, "pool_id") \/ body.pool_id = ""
MissingContributorId(body) == ~Has(body, "contributor_id") \/ body.contributor_id = ""

\* POST /register: the columns both the update and the insert set.
RegisterRow(body, t) ==
    [cpu_cores |-> Num(FieldOrZero(body, "cpu_cores")),
     ram_gb |-> Num(FieldOrZero(body, "ram_gb")),
     storage_gb |-> Num(FieldOrZero(body, "storage_gb")),
     status |-> "online",
     last_seen |-> t]

\* A re-registration that writes only the fields the request carries.
RegisterExistingPartial(st, body, pool, existing) ==
    LET patch == [f \in {"status", "last_seen"} \cup (Resources \cap DOMAIN body) |->
                     IF f = "status" THEN "online"
                     ELSE IF f = "last_seen" THEN st.now
                     ELSE Num(OrZero(body[f]))]
        updated == UpdateContributors(st.pool_contributors, {existing}, patch)
    IN  Outcome(updatePoolTotals(st.pools, updated, body.pool_id), updated, st.unusedIds,
                Json(200, [success |-> TRUE, contributor_id |-> existing.id,
                           pool_name |-> pool.name,
                           message |-> "Agent reconnected to pool"]),
                Relations)

\* A re-registration that replaces the row it found by a new one.
RegisterReplacingRow(st, body, pool, existing) ==
    LET id == FreshId(st.unusedIds)
        row == [id |-> id, pool_id |-> body.pool_id, user_id |-> existing.user_id]
                   @@ RegisterRow(body, st.now)
        replaced == (st.pool_contributors \ {existing}) \cup {row}
    IN  Outcome(updatePoolTotals(st.pools, replaced, body.pool_id), replaced,
                st.unusedIds \ {id},
                Json(200, [success |-> TRUE, contributor_id |-> id,
                           pool_name |-> pool.name,
                           message |-> "Agent registered successfully"]),
                Relations)

RegisterExisting(st, body, pool, existing) ==
    LET updated == UpdateContributors(st.pool_contributors, {existing},
                                      RegisterRow(body, st.now))
    IN  Outcome(updatePoolTotals(st.pools, updated, body.pool_id), updated, st.unusedIds,
                Json(200, [success |-> TRUE, contributor_id |-> existing.id,
                           pool_name |-> pool.name,
                           message |-> "Agent reconnected to pool"]),
                Relations)

NewContributor(id, user, body, t) ==
    [id |-> id, pool_id |-> body.pool_id, user_id |-> user] @@ RegisterRow(body, t)

RegisterNew(st, user, body, pool) ==
    LET row == NewContributor(FreshId(st.unusedIds), user, body, st.now)
        inserted == InsertContributor(st.pool_contributors, row)
    IN  IF ViolatesUnique(st.pool_contributors, row)
        THEN Answer(st, Error(500, "Failed to register agent"), Relations)
        ELSE Outcome(updatePoolTotals(st.pools, inserted, body.pool_id), inserted,
                     st.unusedIds \ {row.id},
                     Json(200, [success |-> TRUE, contributor_id |-> row.id,
                                pool_name |-> pool.name,
                                message |-> "Agent registered successfully"]),
                     Relations)

\* A Register that does not look the pool up before writing the row.
RegisterWithoutLookup(st, user, body) ==
    IF MissingPoolId(body)
    THEN Answer(st, Error(400, "pool_id is required"), {})
    ELSE RegisterNew(st, user, body, [name |-> body.pool_id])

RegisterHandler(st, user, body) ==
    IF MissingPoolId(body)
    THEN Answer(st, Error(400, "pool_id is required"), {})
    ELSE LET found == Single(PoolsById(st.pools, body.pool_id))
             existing == Single(ContributorsOf(st.pool_contributors, body.pool_id, user))
         IN  IF found = {}
             THEN Answer(st, Error(404, "Pool not found"), {"pools"})
             ELSE IF existing # {}
             THEN RegisterExisting(st, body, CHOOSE p \in found : TRUE,
                                   CHOOSE c \in existing : TRUE)
             ELSE RegisterNew(st, user, body, CHOOSE p \in found : TRUE)

\* A heartbeat that writes every resource column, as Register does.
HeartbeatFullUpdate(body, t) ==
    [cpu_cores |-> Num(FieldOrZero(body, "cpu_cores")),
     ram_gb |-> Num(FieldOrZero(body, "ram_gb")),
     storage_gb |-> Num(FieldOrZero(body, "storage_gb")),
     status |-> IF Has(body, "status") /\ body.status # "" THEN body.status ELSE "online",
     last_seen |-> t]

\* POST /heartbeat
HeartbeatUpdateData(body, t) ==
    [f \in {"status", "last_seen"} \cup (Resources \cap DOMAIN body) |->
        IF f = "status"
          THEN (IF Has(body, "status") /\ body.status # "" THEN body.status ELSE "online")
        ELSE IF f = "last_seen" THEN t
        ELSE body[f]]

\* A heartbeat that recomputes the totals whatever it carries.
AlwaysAggregates(body) == TRUE

HasResources(body) ==
    Has(body, "cpu_cores") \/ Has(body, "ram_gb") \/ Has(body, "storage_gb")

\* The update's filter without its .eq('user_id', user.id).
AnyoneById(cs, id, user) == {c \in cs : c.id = id}

\* The rows .eq('id', contributor_id).eq('user_id', user.id) selects.
OwnedById(cs, id, user) == {c \in cs : c.id = id /\ c.user_id = user}

\* A Heartbeat that updates the row by its id alone and checks the caller
\* afterwards.
HeartbeatCheckingCallerLate(st, user, body) ==
    IF MissingContributorId(body)
    THEN Answer(st, Error(400, "contributor_id is required"), {})
    ELSE LET matched == AnyoneById(st.pool_contributors, body.contributor_id, user)
             updated == UpdateContributors(st.pool_contributors, matched,
                                           HeartbeatUpdateData(body, st.now))
         IN  IF \E c \in matched : c.user_id = user
             THEN Outcome(st.pools, updated, st.unusedIds,
                          Json(200, [success |-> TRUE, message |-> "Heartbeat received"]),
                          {"pool_contributors"})
             ELSE Outcome(st.pools, updated, st.unusedIds,
                          Error(500, "Failed to update heartbeat"),
                          {"pool_contributors"})

HeartbeatHandler(st, user, body) ==
    IF MissingContributorId(body)
    THEN Answer(st, Error(400, "contributor_id is required"), {})
    ELSE LET matched == OwnedById(st.pool_contributors, body.contributor_id, user)
             updated == UpdateContributors(st.pool_contributors, matched,
                                           HeartbeatUpdateData(body, st.now))
             ok == Json(200, [success |-> TRUE, message |-> "Heartbeat received"])
         IN  IF Single(matched) = {}
             THEN Outcome(st.pools, updated, st.unusedIds,
                          Error(500, "Failed to update heartbeat"),
                          {"pool_contributors"})
             ELSE IF HasResources(body)
             THEN Outcome(updatePoolTotals(st.pools, updated,
                                           (CHOOSE c \in matched : TRUE).pool_id),
                          updated, st.unusedIds, ok, Relations)
             ELSE Outcome(st.pools, updated, st.unusedIds, ok, {"pool_contributors"})

\* A Disconnect that recomputes the pool's totals after its update.
DisconnectAggregating(st, user, body) ==
    IF MissingContributorId(body)
    THEN Answer(st, Error(400, "contributor_id is required"), {})
    ELSE LET matched == OwnedById(st.pool_contributors, body.contributor_id, user)
             updated == UpdateContributors(st.pool_contributors, matched,
                            [status |-> "offline", last_seen |-> st.now])
         IN  IF Single(matched) = {}
             THEN Answer(st, Error(500, "Failed to disconnect"), {"pool_contributors"})
             ELSE Outcome(updatePoolTotals(st.pools, updated,
                                           (CHOOSE c \in matched : TRUE).pool_id),
                          updated, st.unusedIds,
                          Json(200, [success |-> TRUE, message |-> "Agent disconnected"]),
                          Relations)

\* POST /disconnect
DisconnectHandler(st, user, body) ==
    IF MissingContributorId(body)
    THEN Answer(st, Error(400, "contributor_id is required"), {})
    ELSE LET matched == OwnedById(st.pool_contributors, body.contributor_id, user)
             updated == UpdateContributors(st.pool_contributors, matched,
                            [status |-> "offline", last_seen |-> st.now])
         IN  IF Single(matched) = {}
             THEN Outcome(st.pools, updated, st.unusedIds,
                          Error(500, "Failed to disconnect"), {"pool_contributors"})
             ELSE Outcome(st.pools, updated, st.unusedIds,
                          Json(200, [success |-> TRUE, message |-> "Agent disconnected"]),
                          {"pool_contributors"})

\* GET /pools
PoolSummary(p) == [id |-> p.id, name |-> p.name, invite_code |-> p.invite_code]
\* The pool a contributor row embeds through its foreign key pool_id.
EmbeddedPools(ps, c) == {PoolSummary(p) : p \in {q \in ps : q.id = c.pool_id}}

\* A GET /pools that lists every pool and every contribution.
ListAllPoolsHandler(st, user) ==
    Answer(st,
           Json(200, [contributed_pools |->
                         [s \in UNION {EmbeddedPools(st.pools, c) : c \in st.pool_contributors} |->
                             Cardinality({c \in st.pool_contributors :
                                             s \in EmbeddedPools(st.pools, c)})],
                      owned_pools |-> {PoolSummary(p) : p \in st.pools}]),
           Relations)

\* contributed_pools is an array with one element per contribution: a bag, each
\* summary with the number of rows that embed it.
ListPoolsHandler(st, user) ==
    LET contributions == {c \in st.pool_contributors : c.user_id = user}
        ownedPools == {p \in st.pools : p.owner_id = user}
    IN  Answer(st,
               Json(200, [contributed_pools |->
                             [s \in UNION {EmbeddedPools(st.pools, c) : c \in contributions} |->
                                 Cardinality({c \in contributions :
                                                 s \in EmbeddedPools(st.pools, c)})],
                          owned_pools |-> {PoolSummary(p) : p \in ownedPools}]),
               Relations)

\* A GET /pool/:id that answers for public pools only.
GetPublicPoolHandler(st, poolId) ==
    LET found == Single({p \in PoolsById(st.pools, poolId) : p.is_public})
    IN  IF found = {}
        THEN Answer(st, Error(404, "Pool not found"), {"pools"})
        ELSE Answer(st, Json(200, CHOOSE p \in found : TRUE), {"pools"})

\* GET /pool/:id
GetPoolHandler(st, poolId) ==
    LET found == Single(PoolsById(st.pools, poolId))
    IN  IF found = {}
        THEN Answer(st, Error(404, "Pool not found"), {"pools"})
        ELSE Answer(st, Json(200, CHOOSE p \in found : TRUE), {"pools"})

\* POST /join/:invite_code
LookupInviteHandler(st, inviteCode) ==
    LET found == Single(PoolsByInvite(st.pools, inviteCode))
    IN  IF found = {}
        THEN Answer(st, Error(404, "Invalid invite code"), {"pools"})
        ELSE LET pool == CHOOSE p \in found : TRUE
             IN  Answer(st,
                        Json(200, [pool_id |-> pool.id, pool_name |-> pool.name,
                                   message |-> "Use /register with this pool_id to join"]),
                        {"pools"})

\* An authorization check that accepts whatever token is presented.
AnyToken(req) == TRUE

\* supabase.auth.getUser(token): the tokens in use are the users' names.
Authenticated(req) == req.auth \in Users

\* The route a request that passed the authorization check is dispatched to.
Route(req) ==
    IF req.method = "POST" /\ req.path = "/register" THEN "register"
    ELSE IF req.method = "POST" /\ req.path = "/heartbeat" THEN "heartbeat"
    ELSE IF req.method = "POST" /\ req.path = "/disconnect" THEN "disconnect"
    ELSE IF req.method = "GET" /\ req.path = "/pools" THEN "pools"
    ELSE IF req.method = "GET" /\ req.path = "/pool/" THEN "pool"
    ELSE IF req.method = "POST" /\ req.path = "/join/" THEN "join"
    ELSE "none"

\* Deno.serve: the whole request handler, run against the store `st`.
Serve(st, req) ==
    IF req.method = "OPTIONS"
    THEN Answer(st, Json(200, EmptyBody), {})
    ELSE IF req.auth = ""
    THEN Answer(st, Error(401, "Missing authorization header"), {})
    ELSE IF ~Authenticated(req)
    THEN Answer(st, Error(401, "Invalid or expired token"), {})
    ELSE CASE Route(req) = "register" -> RegisterHandler(st, req.auth, req.body)
           [] Route(req) = "heartbeat" -> HeartbeatHandler(st, req.auth, req.body)
           [] Route(req) = "disconnect" -> DisconnectHandler(st, req.auth, req.body)
           [] Route(req) = "pools" -> ListPoolsHandler(st, req.auth)
           [] Route(req) = "pool" -> GetPoolHandler(st, req.arg)
           [] Route(req) = "join" -> LookupInviteHandler(st, req.arg)
           [] OTHER -> Answer(st, Error(404, "Not found"), {})

(* ------------------------------------------------- failures and exceptions *)
\* What can go wrong in a call the handler awaits: the call throws, or, for the
\* two store calls of updatePoolTotals, it reports an error in its result.
Throws ==
    {"getUser throws", "req.json throws", "select throws", "write throws",
     "aggregator read throws", "aggregator write throws"}
Failures == {"aggregator read fails", "aggregator write fails"}
Faults == {"none"} \cup Throws \cup Failures

\* The calls a request's handling gets to, given that the earlier ones went well.
CallsGetUser(req) == req.method # "OPTIONS" /\ req.auth # ""
ParsesBody(req) ==
    Authenticated(req) /\ req.method # "OPTIONS"
    /\ Route(req) \in {"register", "heartbeat", "disconnect"}
SelectsFirst(req) ==
    Authenticated(req) /\ req.method # "OPTIONS"
    /\ \/ Route(req) \in {"pools", "pool", "join"}
       \/ Route(req) = "register" /\ ~MissingPoolId(req.body)
WritesRow(st, req) ==
    Authenticated(req) /\ req.method # "OPTIONS"
    /\ \/ Route(req) = "register" /\ ~MissingPoolId(req.body)
          /\ Single(PoolsById(st.pools, req.body.pool_id)) # {}
       \/ Route(req) \in {"heartbeat", "disconnect"} /\ ~MissingContributorId(req.body)
CallsAggregator(st, req) ==
    WritesRow(st, req)
    /\ Serve(st, req).response.status = 200
    /\ \/ Route(req) = "register"
       \/ Route(req) = "heartbeat" /\ HasResources(req.body)

\* The fault strikes: the handling gets to the call that goes wrong.
Strikes(st, req, fault) ==
    CASE fault = "getUser throws" -> CallsGetUser(req)
      [] fault = "req.json throws" -> ParsesBody(req)
      [] fault = "select throws" -> SelectsFirst(req)
      [] fault = "write throws" -> WritesRow(st, req)
      [] fault \in {"aggregator read throws", "aggregator write throws",
                    "aggregator read fails", "aggregator write fails"} ->
            CallsAggregator(st, req)
      [] OTHER -> FALSE

\* The catch block of Deno.serve.
InternalServerError == Error(500, "Internal server error")

\* An exception that leaves the handler: the handler gives no response.
Uncaught(out) ==
    Outcome(out.pools, out.pool_contributors, out.unusedIds, NoResponse, out.accessed)
Caught(out) ==
    Outcome(out.pools, out.pool_contributors, out.unusedIds, InternalServerError,
            out.accessed)

\* A Deno.serve that undoes the row change and answers 500 when
\* updatePoolTotals does not complete.
ServeRollingBack(st, req, fault) ==
    IF Strikes(st, req, fault)
    THEN Caught(Answer(st, NoResponse, {}))
    ELSE Serve(st, req)

\* Deno.serve under a fault. A call that throws has not taken effect, the calls
\* before it have: an exception in updatePoolTotals finds the row written and
\* the totals as they were. updatePoolTotals returns early when its read gives
\* no data and does not look at the result of its write.
ServeUnder(st, req, fault) ==
    LET normal == Serve(st, req)
        rowWritten == Outcome(st.pools, normal.pool_contributors, normal.unusedIds,
                              normal.response, normal.accessed)
    IN  IF ~Strikes(st, req, fault) THEN normal
        ELSE IF fault \in Failures THEN rowWritten
        ELSE IF fault \in {"aggregator read throws", "aggregator write throws"}
        THEN Caught(rowWritten)
        ELSE Caught(Answer(st, normal.response, {}))

(* ------------------------------------------------------------ the inputs *)
Request(method, path, arg, auth, body) ==
    [method |-> method, path |-> path, arg |-> arg, auth |-> auth, body |-> body]

AllThree(v) == [cpu_cores |-> v, ram_gb |-> v, storage_gb |-> v]

\* The resource fields a Register body carries. u1's agent reports none of
\* them, cpu_cores alone, or all three; u2's agent always reports all three.
RegisterResources(user) ==
    IF user = "u1"
    THEN {EmptyBody, AllThree(Num(MaxRes))} \cup {[cpu_cores |-> Num(n)] : n \in 1..MaxRes}
    ELSE {AllThree(Num(1))}
\* The pools a user's agent registers with.
RegisterPools(user) == IF user = "u1" THEN PoolIds ELSE {"p1"}
\* Those a Heartbeat body carries. u1's agent: none, cpu_cores alone (a number
\* or null), or ram_gb and storage_gb; u2's agent reports none.
HeartbeatResources(user) ==
    IF user = "u1"
    THEN {EmptyBody, [cpu_cores |-> Null], [cpu_cores |-> Num(0)], [cpu_cores |-> Num(MaxRes)],
          [ram_gb |-> Num(MaxRes), storage_gb |-> Num(MaxRes)]}
    ELSE {EmptyBody}

\* A body without pool_id, one naming a pool that does not exist, and the
\* bodies naming a pool.
RegisterBodies(user) ==
    {EmptyBody, [pool_id |-> "p9"]}
    \cup {[pool_id |-> p] @@ res : p \in RegisterPools(user), res \in RegisterResources(user)}
\* A body without contributor_id, and the bodies naming a row: with the
\* resource fields alone, or with status 'offline' and at most cpu_cores.
HeartbeatBodies(user) ==
    {EmptyBody}
    \cup {[contributor_id |-> i] @@ res :
            i \in ContributorIds, res \in HeartbeatResources(user)}
    \cup {[contributor_id |-> i, status |-> "offline"] @@ res :
            i \in ContributorIds,
            res \in {EmptyBody} \cup (HeartbeatResources(user) \cap {[cpu_cores |-> Num(MaxRes)]})}
DisconnectBodies ==
    {EmptyBody} \cup {[contributor_id |-> i] : i \in ContributorIds}

RegisterRequests ==
    UNION {{Request("POST", "/register", "", u, b) : b \in RegisterBodies(u)} : u \in Users}
HeartbeatRequests ==
    UNION {{Request("POST", "/heartbeat", "", u, b) : b \in HeartbeatBodies(u)} : u \in Users}
DisconnectRequests ==
    {Request("POST", "/disconnect", "", u, b) : u \in Users, b \in DisconnectBodies}
ListPoolsRequests == {Request("GET", "/pools", "", u, EmptyBody) : u \in Users}
GetPoolRequests ==
    {Request("GET", "/pool/", p, u, EmptyBody) : u \in Users, p \in {"p1", "p9"}}
LookupInviteRequests ==
    {Request("POST", "/join/", c, u, EmptyBody) : u \in {"u2"}, c \in {"CODE1", "NOCODE"}}
UnknownRequests ==
    {Request("GET", "/register", "", "u1", EmptyBody),
     Request("POST", "/status", "", "u2", EmptyBody)}
\* One request per route, to be sent without credentials or with a token that
\* resolves to no user.
Routes ==
    {<<"POST", "/register", "">>, <<"POST", "/heartbeat", "">>,
     <<"POST", "/disconnect", "">>, <<"GET", "/pools", "">>, <<"GET", "/pool/", "p1">>,
     <<"POST", "/join/", "CODE1">>, <<"GET", "/status", "">>}
RouteBody(path) ==
    IF path = "/register" THEN [pool_id |-> "p1"] @@ AllThree(Num(MaxRes))
    ELSE IF path \in {"/heartbeat", "/disconnect"} THEN [contributor_id |-> "c1"]
    ELSE EmptyBody
UnauthorizedRequests ==
    {Request(r[1], r[2], r[3], a, RouteBody(r[2])) : r \in Routes, a \in {"", "expired"}}
\* The CORS preflight of each route; a browser sends it without credentials.
OptionsRequests ==
    {Request("OPTIONS", r[2], r[3], "", EmptyBody) : r \in Routes}

Requests ==
    RegisterRequests \cup HeartbeatRequests \cup DisconnectRequests
    \cup ListPoolsRequests \cup GetPoolRequests \cup LookupInviteRequests
    \cup UnknownRequests \cup UnauthorizedRequests \cup OptionsRequests

(* ----------------------------------------------------------- the actions *)
Agents == {"a1", "a2"}
\* A handler's position and locals: the statement it runs next, its caller and
\* body, the pool it aggregates, the rows its last select returned, the id of
\* the row it inserted (which its response will carry), and the status it
\* answered with when it returned.
Call(pc, user, body, poolId, rows, inserted, status) ==
    [pc |-> pc, user |-> user, body |-> body, pool_id |-> poolId, rows |-> rows,
     inserted |-> inserted, status |-> status]
NoCall == Call("idle", "", EmptyBody, "", {}, "", 0)
Returned(call, status) ==
    Call("idle", call.user, call.body, call.pool_id, call.rows, "", status)

Current == Store(pools, pool_contributors, unusedIds, now)
Idle == response = NoResponse
Quiescent == \A a \in Agents : calls[a].pc = "idle"

\* Deno.serve answers `req`: the handler runs to its return, leaving `out`.
Respond(out) ==
    /\ Idle
    /\ pools' = out.pools
    /\ pool_contributors' = out.pool_contributors
    /\ unusedIds' = out.unusedIds
    /\ response' = out.response
    /\ accessed' = out.accessed
    /\ UNCHANGED <<now, calls, servers, server_pool_assignments>>
Exchange(req) == \E out \in {Serve(Current, req)} : Respond(out)

\* An insert needs an id of the universe.
Register ==
    \E req \in RegisterRequests :
        \E out \in {Serve(Current, req)} :
            /\ \A c \in out.pool_contributors : c.id \in ContributorIds
            /\ Respond(out)
Heartbeat == \E req \in HeartbeatRequests : Exchange(req)
Disconnect == \E req \in DisconnectRequests : Exchange(req)
ListPools == \E req \in ListPoolsRequests : Exchange(req)
GetPool == \E req \in GetPoolRequests : Exchange(req)
LookupInvite == \E req \in LookupInviteRequests : Exchange(req)
UnknownRoute == \E req \in UnknownRequests : Exchange(req)
Unauthorized == \E req \in UnauthorizedRequests : Exchange(req)
Options == \E req \in OptionsRequests : Exchange(req)

\* The response reaches the agent: the exchange is over.
Deliver ==
    /\ ~Idle
    /\ response' = NoResponse
    /\ accessed' = {}
    /\ UNCHANGED <<pools, pool_contributors, unusedIds, now, calls, servers, server_pool_assignments>>

\* JoinPool page, handleJoin: INSERT INTO pool_contributors (pool_id, user_id) for
\* the pool the page loaded by its invite code; the other columns take their
\* defaults (last_seen NULL, written 0).
JoinedContributor(id, user, poolId) ==
    [id |-> id, pool_id |-> poolId, user_id |-> user,
     cpu_cores |-> Num(0), ram_gb |-> Num(0), storage_gb |-> Num(0),
     status |-> "offline", last_seen |-> 0]

handleJoin(user, pool) ==
    /\ Idle
    /\ unusedIds # {}
    /\ CanViewPool(pool_contributors, pool, user)
    /\ LET row == JoinedContributor(FreshId(unusedIds), user, pool.id)
       IN  /\ CanInsertContributor(pools, row, user)
           /\ ~ViolatesUnique(pool_contributors, row)
           /\ pool_contributors' = InsertContributor(pool_contributors, row)
           /\ unusedIds' = unusedIds \ {row.id}
    /\ UNCHANGED <<pools, now, response, accessed, calls, servers, server_pool_assignments>>

\* A delete policy that lets any user delete any row.
AnyoneCanDelete(ps, cs, uid, contributorId) == {c \in cs : c.id # contributorId}

\* DELETE FROM pool_contributors WHERE id = contributorId, as user uid: the rows
\* left are those the filter does not match or the delete policy protects.
DeleteContributor(ps, cs, uid, contributorId) ==
    {c \in cs : ~(c.id = contributorId /\ CanDeleteContributor(ps, c, uid))}

\* PoolDetail page, removeContributor: DELETE FROM pool_contributors WHERE id = ...,
\* under the delete policy.
removeContributor(user, contributorId) ==
    /\ Idle
    /\ \E c \in pool_contributors : c.id = contributorId
    /\ pool_contributors' = DeleteContributor(pools, pool_contributors, user, contributorId)
    /\ UNCHANGED <<pools, unusedIds, now, response, accessed, calls, servers, server_pool_assignments>>

Tick ==
    /\ Idle
    /\ now < MaxTime
    /\ now' = now + 1
    /\ UNCHANGED <<pools, pool_contributors, unusedIds, response, accessed, calls, servers, server_pool_assignments>>

\* A pool as the CreatePool page inserts it: the totals at their column default.
NewPool(id, owner, code, isPublic) ==
    [id |-> id, owner_id |-> owner, name |-> id, invite_code |-> code,
     is_public |-> isPublic,
     total_cpu_cores |-> 0, total_ram_gb |-> 0, total_storage_gb |-> 0]

\* Two pools have been created: a private one of u1 and a public one of u2.
Init ==
    /\ pools = {NewPool("p1", "u1", "CODE1", FALSE), NewPool("p2", "u2", "CODE2", TRUE)}
    /\ pool_contributors = {}
    /\ unusedIds = ContributorIds
    /\ now = 1
    /\ response = NoResponse
    /\ accessed = {}
    /\ calls = [a \in Agents |-> NoCall]
    /\ servers = {}
    /\ server_pool_assignments = {}

\* The agents' writes, one request at a time, and the pages' writes.
Next ==
    \/ Tick
    \/ \E u \in Users, p \in pools : handleJoin(u, p)
    \/ \E u \in Users, i \in ContributorIds : removeContributor(u, i)
    \/ Register
    \/ Heartbeat
    \/ Disconnect
    \/ Deliver

Spec == Init /\ [][Next]_vars

\* The authorization check and the routes that only read, over the stores
\* registrations and joins build.
NextRead ==
    \/ \E u \in Users, p \in pools : handleJoin(u, p)
    \/ Register
    \/ ListPools
    \/ GetPool
    \/ LookupInvite
    \/ UnknownRoute
    \/ Unauthorized
    \/ Options
    \/ Deliver

SpecRead == Init /\ [][NextRead]_vars

(* ------------------------------------------- handlers statement by statement *)
\* The requests agents issue while others are in progress: registrations with
\* pool p1 and heartbeats that report cpu_cores.
ConcurrentRegisterBodies == {[pool_id |-> "p1"] @@ AllThree(Num(n)) : n \in 1..MaxRes}
ConcurrentHeartbeatBodies ==
    {[contributor_id |-> i, cpu_cores |-> Num(0)] : i \in ContributorIds}

\* POST /register up to its select of the existing row.
BeginRegister(a, user, body) ==
    /\ calls[a].pc = "idle"
    /\ ~MissingPoolId(body)
    /\ Single(PoolsById(pools, body.pool_id)) # {}
    /\ calls' = [calls EXCEPT ![a] =
                    Call("write_row", user, body, body.pool_id,
                         Single(ContributorsOf(pool_contributors, body.pool_id, user)),
                         "", 0)]
    /\ UNCHANGED <<pools, pool_contributors, unusedIds, now, response, accessed, servers, server_pool_assignments>>

\* A Register whose refused insert is retried as an update of the pair's row.
WriteRowRetrying(a) ==
    LET call == calls[a]
        pair == ContributorsOf(pool_contributors, call.pool_id, call.user)
        row == NewContributor(FreshId(unusedIds), call.user, call.body, now)
    IN  /\ call.pc = "write_row"
        /\ IF pair # {}
           THEN /\ pool_contributors' =
                     UpdateContributors(pool_contributors, pair, RegisterRow(call.body, now))
                /\ UNCHANGED unusedIds
                /\ calls' = [calls EXCEPT ![a] =
                       Call("read_online", call.user, call.body, call.pool_id, {}, "", 0)]
           ELSE /\ row.id \in ContributorIds
                /\ pool_contributors' = InsertContributor(pool_contributors, row)
                /\ unusedIds' = unusedIds \ {row.id}
                /\ calls' = [calls EXCEPT ![a] =
                       Call("read_online", call.user, call.body, call.pool_id, {},
                            row.id, 0)]
        /\ UNCHANGED <<pools, now, response, accessed, servers, server_pool_assignments>>

\* POST /register: the update of the row it found, or the insert of a new one.
WriteRow(a) ==
    LET call == calls[a]
        matched == {c \in pool_contributors : \E e \in call.rows : c.id = e.id}
        row == NewContributor(FreshId(unusedIds), call.user, call.body, now)
        failed == /\ calls' = [calls EXCEPT ![a] = Returned(call, 500)]
                  /\ UNCHANGED <<pool_contributors, unusedIds>>
        proceed(id) == calls' = [calls EXCEPT ![a] =
                           Call("read_online", call.user, call.body, call.pool_id, {},
                                id, 0)]
    IN  /\ call.pc = "write_row"
        /\ IF call.rows # {}
           THEN IF Single(matched) = {}
                THEN failed
                ELSE /\ pool_contributors' =
                          UpdateContributors(pool_contributors, matched,
                                             RegisterRow(call.body, now))
                     /\ proceed("")
                     /\ UNCHANGED unusedIds
           ELSE IF ViolatesUnique(pool_contributors, row)
                THEN failed
                ELSE /\ row.id \in ContributorIds
                     /\ pool_contributors' = InsertContributor(pool_contributors, row)
                     /\ unusedIds' = unusedIds \ {row.id}
                     /\ proceed(row.id)
        /\ UNCHANGED <<pools, now, response, accessed, servers, server_pool_assignments>>

\* The ids an agent can name: a new row's id is the store's, and reaches the
\* agents in the response of the Register that inserted the row.
KnownIds == ContributorIds \ {calls[a].inserted : a \in Agents}

\* POST /heartbeat up to its update of the caller's row.
BeginHeartbeat(a, user, body) ==
    LET matched == OwnedById(pool_contributors, body.contributor_id, user)
    IN  /\ calls[a].pc = "idle"
        /\ ~MissingContributorId(body)
        /\ body.contributor_id \in KnownIds
        /\ IF Single(matched) = {}
           THEN /\ calls' = [calls EXCEPT ![a] = Call("idle", user, body, "", {}, "", 500)]
                /\ UNCHANGED pool_contributors
           ELSE /\ pool_contributors' =
                     UpdateContributors(pool_contributors, matched,
                                        HeartbeatUpdateData(body, now))
                /\ calls' = [calls EXCEPT ![a] =
                       IF HasResources(body)
                       THEN Call("read_online", user, body,
                                 (CHOOSE c \in matched : TRUE).pool_id, {}, "", 0)
                       ELSE Call("idle", user, body, "", {}, "", 200)]
        /\ UNCHANGED <<pools, unusedIds, now, response, accessed, servers, server_pool_assignments>>

\* updatePoolTotals, first statement: select the pool's online rows.
AggregatorRead(a) ==
    /\ calls[a].pc = "read_online"
    /\ calls' = [calls EXCEPT ![a] =
                    Call("write_totals", @.user, @.body, @.pool_id,
                         OnlineContributors(pool_contributors, @.pool_id), @.inserted, 0)]
    /\ UNCHANGED <<pools, pool_contributors, unusedIds, now, response, accessed, servers, server_pool_assignments>>

\* updatePoolTotals, second statement: write the sums of the rows it read; the
\* handler then returns.
AggregatorWrite(a) ==
    /\ calls[a].pc = "write_totals"
    /\ pools' = WriteTotals(pools, calls[a].pool_id, Reduce(calls[a].rows))
    /\ calls' = [calls EXCEPT ![a] = Returned(@, 200)]
    /\ UNCHANGED <<pool_contributors, unusedIds, now, response, accessed, servers, server_pool_assignments>>

NextConcurrent ==
    \/ \E a \in Agents, u \in Users, b \in ConcurrentRegisterBodies : BeginRegister(a, u, b)
    \/ \E a \in Agents, u \in Users, b \in ConcurrentHeartbeatBodies : BeginHeartbeat(a, u, b)
    \/ \E a \in Agents : WriteRow(a)
    \/ \E a \in Agents : AggregatorRead(a)
    \/ \E a \in Agents : AggregatorWrite(a)
    \/ \E u \in Users, p \in pools : handleJoin(u, p)

SpecConcurrent == Init /\ [][NextConcurrent]_vars

(* ------------------------------------------------ the status agents report *)
\* The status strings a Heartbeat body carries: the two of HeartbeatPayload,
\* the empty string, and one that the type does not list; JSON.parse does not
\* check the type.
ReportedStatuses == {"online", "offline", "", "busy"}
StatusHeartbeatRequests ==
    {Request("POST", "/heartbeat", "", u, [contributor_id |-> i, status |-> s]) :
        u \in Users, i \in ContributorIds, s \in ReportedStatuses}

HeartbeatWithStatus == \E req \in StatusHeartbeatRequests : Exchange(req)

\* Registrations, joins and disconnects, and heartbeats that report a status,
\* as time passes.
NextStatus ==
    \/ \E u \in Users, p \in pools : handleJoin(u, p)
    \/ Register
    \/ HeartbeatWithStatus
    \/ Disconnect
    \/ Deliver
    \/ Tick

SpecStatus == Init /\ [][NextStatus]_vars

(* ------------------------------------------------------ racing registrations *)
\* First-time registrations of one user with pool p1, racing each other with
\* different resource values.
RacingRegisterBodies ==
    {[pool_id |-> "p1"]} \cup {[pool_id |-> "p1"] @@ AllThree(Num(n)) : n \in 1..MaxRes}

NextRace ==
    \/ \E a \in Agents, b \in RacingRegisterBodies : BeginRegister(a, "u1", b)
    \/ \E a \in Agents : WriteRow(a)
    \/ \E a \in Agents : AggregatorRead(a)
    \/ \E a \in Agents : AggregatorWrite(a)
    \/ Tick

SpecRace == Init /\ [][NextRace]_vars

(* ------------------------------------------------- requests under faults *)
\* The requests served while calls go wrong: registrations with all three
\* resources, heartbeats with cpu_cores or with a status alone, disconnects.
FaultyRegisterRequests ==
    {Request("POST", "/register", "", u, b) : u \in Users, b \in ConcurrentRegisterBodies}
FaultyHeartbeatRequests ==
    {Request("POST", "/heartbeat", "", u, b) :
        u \in Users,
        b \in {[contributor_id |-> i, cpu_cores |-> Num(MaxRes)] : i \in ContributorIds}
              \cup {[contributor_id |-> i, status |-> "offline"] : i \in ContributorIds}}

RegisterUnderFault ==
    \E req \in FaultyRegisterRequests, fault \in Faults :
        \E out \in {ServeUnder(Current, req, fault)} :
            /\ \A c \in out.pool_contributors : c.id \in ContributorIds
            /\ Respond(out)
HeartbeatUnderFault ==
    \E req \in FaultyHeartbeatRequests, fault \in Faults :
        \E out \in {ServeUnder(Current, req, fault)} : Respond(out)
DisconnectUnderFault ==
    \E req \in DisconnectRequests, fault \in Faults :
        \E out \in {ServeUnder(Current, req, fault)} : Respond(out)

NextFaults ==
    \/ RegisterUnderFault
    \/ HeartbeatUnderFault
    \/ DisconnectUnderFault
    \/ Deliver

SpecFaults == Init /\ [][NextFaults]_vars

(* ------------------------------------------------ the numbers agents report *)
\* The numbers a body's cpu_cores carries: JSON numbers have a sign, and
\* neither the handlers nor the columns restrict it.
ReportedNumbers == (0 - MaxRes)..MaxRes
SignedRegisterRequests ==
    {Request("POST", "/register", "", u, [pool_id |-> p, cpu_cores |-> Num(n)]) :
        u \in Users, p \in PoolIds, n \in ReportedNumbers}
SignedHeartbeatRequests ==
    {Request("POST", "/heartbeat", "", u, [contributor_id |-> i, cpu_cores |-> Num(n)]) :
        u \in Users, i \in ContributorIds, n \in ReportedNumbers}

RegisterSigned ==
    \E req \in SignedRegisterRequests :
        \E out \in {Serve(Current, req)} :
            /\ \A c \in out.pool_contributors : c.id \in ContributorIds
            /\ Respond(out)
HeartbeatSigned == \E req \in SignedHeartbeatRequests : Exchange(req)

NextSigned ==
    \/ RegisterSigned
    \/ HeartbeatSigned
    \/ Deliver

SpecSigned == Init /\ [][NextSigned]_vars

(* ------------------------------------------------- who can see whose profile *)
\* The accounts of auth.users: the two that run agents and one more.
Accounts == Users \cup {"u3"}
ServerIds == {"s1", "s2"}

\* pools p LEFT JOIN pool_contributors pc ON pc.pool_id = p.id: one row per
\* contributor of each pool, and one with pc NULL for a pool without
\* contributors. The nullable side is a sequence: <<>> is NULL, <<c>> the row c.
MatchedContributors(ps, cs) ==
    {j \in [p : ps, pc : {<<c>> : c \in cs}] : j.pc[1].pool_id = j.p.id}

\* The join without LEFT: a pool without contributors yields no row.
InnerJoinContributors(ps, cs) == MatchedContributors(ps, cs)

LeftJoinContributors(ps, cs) ==
    MatchedContributors(ps, cs) \cup
        {[p |-> p, pc |-> <<>>] : p \in {q \in ps : \A c \in cs : c.pool_id # q.id}}

\* pc.user_id = uid, which no NULL pc satisfies.
UserIdIs(pc, uid) == \E i \in DOMAIN pc : pc[i].user_id = uid

\* First EXISTS of users_share_pool, with the viewer's contributor rows left out.
OwnerSharesPoolWith(ps, cs, viewer_id, target_id) ==
    \E j \in LeftJoinContributors(ps, cs) :
        /\ j.p.owner_id = viewer_id
        /\ \/ j.p.owner_id = target_id
           \/ \E pc2 \in cs : pc2.pool_id = j.p.id /\ pc2.user_id = target_id

\* First EXISTS of users_share_pool: both are in the same pool.
SharesPoolWith(ps, cs, viewer_id, target_id) ==
    \E j \in LeftJoinContributors(ps, cs) :
        /\ j.p.owner_id = viewer_id \/ UserIdIs(j.pc, viewer_id)
        /\ \/ j.p.owner_id = target_id
           \/ \E pc2 \in cs : pc2.pool_id = j.p.id /\ pc2.user_id = target_id

\* Second EXISTS of users_share_pool, with the target's contributor rows left out.
ServerInPoolOwnedBy(ps, cs, ss, spas, viewer_id, target_id) ==
    \E s \in ss, spa \in spas, j \in LeftJoinContributors(ps, cs) :
        /\ spa.server_id = s.id
        /\ j.p.id = spa.pool_id
        /\ s.owner_id = viewer_id
        /\ j.p.owner_id = target_id

\* Second EXISTS of users_share_pool: the viewer's server is in the target's pool.
ServerInPoolOf(ps, cs, ss, spas, viewer_id, target_id) ==
    \E s \in ss, spa \in spas, j \in LeftJoinContributors(ps, cs) :
        /\ spa.server_id = s.id
        /\ j.p.id = spa.pool_id
        /\ s.owner_id = viewer_id
        /\ j.p.owner_id = target_id \/ UserIdIs(j.pc, target_id)

\* users_share_pool without its second EXISTS.
PoolMembersOnly(ps, cs, ss, spas, viewer_id, target_id) ==
    SharesPoolWith(ps, cs, viewer_id, target_id)

users_share_pool(ps, cs, ss, spas, viewer_id, target_id) ==
    \/ SharesPoolWith(ps, cs, viewer_id, target_id)
    \/ ServerInPoolOf(ps, cs, ss, spas, viewer_id, target_id)

\* Policy "Users can view related profiles": the profile of target_id is
\* visible to viewer_id.
CanViewProfile(ps, cs, ss, spas, viewer_id, target_id) ==
    \/ viewer_id = target_id
    \/ users_share_pool(ps, cs, ss, spas, viewer_id, target_id)

\* CreateServer page, handleSubmit: INSERT INTO servers with the user as owner;
\* status takes its default.
NewServer(id, owner) == [id |-> id, owner_id |-> owner, name |-> id, status |-> "offline"]

createServer(user) ==
    /\ Idle
    /\ \E id \in ServerIds :
          /\ \A s \in servers : s.id # id
          /\ servers' = servers \cup {NewServer(id, user)}
    /\ UNCHANGED <<pools, pool_contributors, unusedIds, now, response, accessed, calls,
                   server_pool_assignments>>

\* Policies of server_pool_assignments: only the server's owner inserts or
\* deletes its assignments.
OwnsServer(ss, serverId, uid) == \E s \in ss : s.id = serverId /\ s.owner_id = uid

\* INSERT INTO server_pool_assignments (server_id, pool_id): both rows exist
\* (foreign keys) and the pair is new (UNIQUE).
assignServer(user, serverId, poolId) ==
    /\ Idle
    /\ OwnsServer(servers, serverId, user)
    /\ \E p \in pools : p.id = poolId
    /\ \A spa \in server_pool_assignments :
          ~(spa.server_id = serverId /\ spa.pool_id = poolId)
    /\ server_pool_assignments' =
          server_pool_assignments \cup {[server_id |-> serverId, pool_id |-> poolId]}
    /\ UNCHANGED <<pools, pool_contributors, unusedIds, now, response, accessed, calls,
                   servers>>

\* DELETE FROM server_pool_assignments WHERE server_id = ... AND pool_id = ...
unassignServer(user, serverId, poolId) ==
    /\ Idle
    /\ \E spa \in server_pool_assignments :
          spa.server_id = serverId /\ spa.pool_id = poolId
    /\ server_pool_assignments' =
          {spa \in server_pool_assignments :
              ~(spa.server_id = serverId /\ spa.pool_id = poolId
                /\ OwnsServer(servers, spa.server_id, user))}
    /\ UNCHANGED <<pools, pool_contributors, unusedIds, now, response, accessed, calls,
                   servers>>

\* The pages' writes that decide who shares a pool with whom.
NextShare ==
    \/ \E u \in Accounts, p \in pools : handleJoin(u, p)
    \/ \E u \in Accounts, i \in ContributorIds : removeContributor(u, i)
    \/ \E u \in Accounts : createServer(u)
    \/ \E u \in Accounts, s \in ServerIds, p \in PoolIds : assignServer(u, s, p)
    \/ \E u \in Accounts, s \in ServerIds, p \in PoolIds : unassignServer(u, s, p)

SpecShare == Init /\ [][NextShare]_vars

(* ------------------------------------------------------------- properties *)
\* The value a nullable numeric column contributes to a sum: NULL counts 0.
Val(x) == IF x = Null THEN 0 ELSE x[1]

\* What the row with id `id` contributes to pool `poolId`'s sum of field `f`:
\* its value when it is a row of that pool and online, else nothing.
OnlineAmount(cs, poolId, id, f) ==
    LET rows == {c \in cs : c.id = id /\ c.pool_id = poolId /\ c.status = "online"}
    IN  IF rows = {} THEN 0 ELSE Val((CHOOSE c \in rows : TRUE)[f])

RECURSIVE SumOverIds(_, _, _, _)
SumOverIds(ids, cs, poolId, f) ==
    IF ids = {} THEN 0
    ELSE LET i == CHOOSE x \in ids : TRUE
         IN  OnlineAmount(cs, poolId, i, f) + SumOverIds(ids \ {i}, cs, poolId, f)

OnlineSum(cs, poolId, f) == SumOverIds({c.id : c \in cs}, cs, poolId, f)
SumsOf(cs, poolId) ==
    <<OnlineSum(cs, poolId, "cpu_cores"), OnlineSum(cs, poolId, "ram_gb"),
      OnlineSum(cs, poolId, "storage_gb")>>
TotalsOf(p) == <<p.total_cpu_cores, p.total_ram_gb, p.total_storage_gb>>

\* The value of resource field `f` a request body asks for: 0 when it is
\* absent or null.
Requested(body, f) == IF Has(body, f) THEN Val(body[f]) ELSE 0
RequestedOf(body) ==
    <<Requested(body, "cpu_cores"), Requested(body, "ram_gb"), Requested(body, "storage_gb")>>
ResourcesOf(row) == <<row.cpu_cores, row.ram_gb, row.storage_gb>>

ErrorIs(resp, msg) == Has(resp.body, "error") /\ resp.body.error = msg
MessageIs(resp, msg) == Has(resp.body, "message") /\ resp.body.message = msg

\* C1: in every state, each pool's three totals equal the sums of the
\* corresponding fields over the pool's online contributor rows.
C1_TotalsEqualOnlineSums ==
    \A p \in pools : TotalsOf(p) = SumsOf(pool_contributors, p.id)

\* C2: in every reachable state, also with Register calls interleaved
\* statement by statement and joins through the store, there is at most one
\* pool_contributors row for any (pool_id, user_id) pair.
C2_OneRowPerPoolAndUser ==
    \A c, d \in pool_contributors :
        (c.pool_id = d.pool_id /\ c.user_id = d.user_id) => c = d

\* A Register that had found no row for its pair was refused its insert: the
\* pair's row had been inserted in between.
C2_RacingInsertRefused ==
    \E a \in Agents :
        /\ calls[a].pc = "idle"
        /\ calls[a].status = 500
        /\ Has(calls[a].body, "pool_id")
        /\ calls[a].rows = {}
        /\ \E c \in pool_contributors :
               c.pool_id = calls[a].pool_id /\ c.user_id = calls[a].user

\* The request names a row that exists and belongs to another user.
NamesForeignRow(cs, req) ==
    /\ Has(req.body, "contributor_id")
    /\ \E c \in cs : c.id = req.body.contributor_id /\ c.user_id # req.auth

\* C3: a Heartbeat or Disconnect naming a contributor_id whose row belongs to
\* another user fails and leaves every contributor row and every pool's
\* totals as they were.
C3_ForeignRowUntouched ==
    Idle =>
        \A req \in HeartbeatRequests \cup DisconnectRequests :
            NamesForeignRow(pool_contributors, req) =>
                LET out == Serve(Current, req)
                IN  /\ out.response.status >= 400
                    /\ out.pool_contributors = pool_contributors
                    /\ out.pools = pools

\* A heartbeat was refused while both ids named rows, of different users, the
\* rows online with resources that their pools' totals count.
C3_ForeignHeartbeatRefused ==
    /\ ErrorIs(response, "Failed to update heartbeat")
    /\ {c.id : c \in pool_contributors} = ContributorIds
    /\ {c.user_id : c \in pool_contributors} = Users
    /\ \A c \in pool_contributors : c.status = "online" /\ c.cpu_cores = Num(1)
    /\ \E p \in pools : p.total_cpu_cores > 0

\* The request carries no Authorization header, or a token of no user.
Unauthorised(req) == req.auth \notin Users
Rejected(st, req) ==
    LET out == Serve(st, req)
    IN  /\ out.response.status = 401
        /\ out.accessed = {}
        /\ out.pools = st.pools
        /\ out.pool_contributors = st.pool_contributors

\* C4, as stated: a request to any route that has no Authorization header, or
\* whose token resolves to no user, is answered 401 and neither reads nor
\* writes pools or pool_contributors.
C4_EveryUnauthorisedRequestRejected ==
    Idle => \A req \in Requests : Unauthorised(req) => Rejected(Current, req)

\* C4, amended: every such request other than a CORS preflight (method
\* OPTIONS) is answered 401 and neither reads nor writes pools or
\* pool_contributors.
C4_UnauthorisedRejectedButPreflight ==
    Idle =>
        \A req \in Requests :
            (Unauthorised(req) /\ req.method # "OPTIONS") => Rejected(Current, req)

\* A request was answered 401 while there were contributor rows to protect.
C4_RejectedOverRows ==
    /\ response.status = 401
    /\ accessed = {}
    /\ pool_contributors # {}

\* C5: a Heartbeat or Disconnect whose contributor_id matches no row owned by
\* the caller is answered 404.
C5_NoOwnedRowIsNotFound ==
    Idle =>
        \A req \in HeartbeatRequests \cup DisconnectRequests :
            (/\ Has(req.body, "contributor_id")
             /\ ~\E c \in pool_contributors :
                    c.id = req.body.contributor_id /\ c.user_id = req.auth)
            => Serve(Current, req).response.status = 404

NumsOf(t) == <<Num(t[1]), Num(t[2]), Num(t[3])>>
RegisterRequest(user, poolId, resources) ==
    Request("POST", "/register", "", user, [pool_id |-> poolId] @@ resources)
\* The store a handler's outcome leaves, for the next handler to run against.
After(out, t) == Store(out.pools, out.pool_contributors, out.unusedIds, t)
RowsOfPair(cs, poolId, user) == {c \in cs : c.pool_id = poolId /\ c.user_id = user}
OnlineRowsOf(cs, poolId) == {c \in cs : c.pool_id = poolId /\ c.status = "online"}

\* What two Register calls in sequence, by `user` for `poolId`, leave behind:
\* one row for the pair, carrying the second call's values, and the pool's
\* totals equal to them when that row is the pool's only online one.
SecondRegisterWins(st, user, poolId, first, second) ==
    LET o1 == Serve(st, RegisterRequest(user, poolId, first))
        o2 == Serve(After(o1, st.now), RegisterRequest(user, poolId, second))
        mine == RowsOfPair(o2.pool_contributors, poolId, user)
    IN  /\ Cardinality(mine) = 1
        /\ \A c \in mine : ResourcesOf(c) = NumsOf(RequestedOf(second))
        /\ OnlineRowsOf(o2.pool_contributors, poolId) = mine =>
               \A q \in o2.pools : q.id = poolId => TotalsOf(q) = RequestedOf(second)

\* C6: two Register calls in sequence with the same pool and caller and
\* different resource values leave exactly one row for the pair, with the second
\* call's values, and the pool's totals equal them when the caller is the
\* pool's only online contributor.
C6_SecondRegisterWins ==
    Idle =>
        \A u \in Users :
            \A p \in RegisterPools(u) :
                \A b1, b2 \in RegisterResources(u) :
                    b1 # b2 => SecondRegisterWins(Current, u, p, b1, b2)

\* u1 is registered with p1, alone and online, with 1 of each resource, which
\* the totals show; a second Register reporting cpu_cores alone then leaves
\* the row and the totals at (1, 0, 0).
C6_RegisteredAgain ==
    /\ Idle
    /\ \E c \in pool_contributors :
          /\ c.user_id = "u1" /\ c.pool_id = "p1" /\ c.status = "online"
          /\ ResourcesOf(c) = NumsOf(<<1, 1, 1>>)
          /\ OnlineRowsOf(pool_contributors, "p1") = {c}
    /\ \E q \in pools : q.id = "p1" /\ TotalsOf(q) = <<1, 1, 1>>
    /\ LET out == Serve(Current, RegisterRequest("u1", "p1", [cpu_cores |-> Num(1)]))
       IN  /\ MessageIs(out.response, "Agent reconnected to pool")
           /\ \E d \in out.pool_contributors : ResourcesOf(d) = NumsOf(<<1, 0, 0>>)
           /\ \E q \in out.pools : q.id = "p1" /\ TotalsOf(q) = <<1, 0, 0>>

\* C7: Register on an existing (pool, caller) row sets its status to online
\* whatever it was, and writes the request's value to each resource field, 0 for
\* a field the request omits: no stored resource value survives.
C7_ReRegistrationOverwrites ==
    Idle =>
        \A req \in RegisterRequests :
            \A c \in pool_contributors :
                (/\ Has(req.body, "pool_id")
                 /\ c.pool_id = req.body.pool_id
                 /\ c.user_id = req.auth)
                => \E d \in Serve(Current, req).pool_contributors :
                       /\ d.id = c.id
                       /\ d.status = "online"
                       /\ ResourcesOf(d) = NumsOf(RequestedOf(req.body))

\* An offline row holding 1 of each resource is re-registered by a request
\* that carries no resource field: it comes out online with 0 of each.
C7_OfflineRowReRegistered ==
    /\ Idle
    /\ \E c \in pool_contributors :
          /\ c.status = "offline"
          /\ ResourcesOf(c) = NumsOf(<<1, 1, 1>>)
          /\ LET out == Serve(Current, RegisterRequest(c.user_id, c.pool_id, EmptyBody))
             IN  /\ MessageIs(out.response, "Agent reconnected to pool")
                 /\ \E d \in out.pool_contributors :
                       /\ d.id = c.id
                       /\ d.status = "online"
                       /\ ResourcesOf(d) = NumsOf(<<0, 0, 0>>)

C9_AggregatorSumsOnlineRows ==
    \A P \in PoolIds :
        LET after == updatePoolTotals(pools, pool_contributors, P)
        IN  \A q \in after :
                IF q.id = P
                THEN /\ TotalsOf(q) = SumsOf(pool_contributors, P)
                     /\ OnlineRowsOf(pool_contributors, P) = {} => TotalsOf(q) = <<0, 0, 0>>
                ELSE q \in pools

\* A heartbeat reporting cpu_cores null ran the aggregator for p1, which holds
\* the reporting row, online, and an offline row with resources: the totals
\* count the online row alone, its null as 0.
C9_AggregatedNullAndOffline ==
    /\ MessageIs(response, "Heartbeat received")
    /\ accessed = Relations
    /\ \E c, d \in pool_contributors :
          /\ c.pool_id = "p1" /\ c.status = "online"
          /\ c.cpu_cores = Null /\ c.ram_gb = Num(1)
          /\ d.pool_id = "p1" /\ d.status = "offline" /\ d.cpu_cores = Num(1)
    /\ \E q \in pools : q.id = "p1" /\ TotalsOf(q) = <<0, 1, 1>>

\* C10: once every concurrently running Register and resource-bearing
\* Heartbeat has returned, each pool's totals equal the sums over its online
\* contributor rows.
C10_TotalsConvergeAtQuiescence ==
    Quiescent => \A p \in pools : TotalsOf(p) = SumsOf(pool_contributors, p.id)

(* ---------------------------------------------- properties of users_share_pool *)
\* users_share_pool over the store as it is.
Shares(viewer, target) ==
    users_share_pool(pools, pool_contributors, servers, server_pool_assignments,
                     viewer, target)

\* u is the owner or a contributor of pool p.
MemberOf(u, p) ==
    \/ p.owner_id = u
    \/ \E c \in pool_contributors : c.pool_id = p.id /\ c.user_id = u

\* Some pool has both as members.
InCommonPool(a, b) == \E p \in pools : MemberOf(a, p) /\ MemberOf(b, p)

\* Some server of `owner` is assigned to a pool that has `member` as a member.
HasServerInPoolOf(owner, member) ==
    \E s \in servers, spa \in server_pool_assignments, p \in pools :
        /\ s.owner_id = owner
        /\ spa.server_id = s.id
        /\ spa.pool_id = p.id
        /\ MemberOf(member, p)

\* C11: users_share_pool(viewer, target) is true exactly when some pool has both
\* the viewer and the target as owner or contributor, or some server the viewer
\* owns is assigned to a pool of which the target is owner or contributor.
C11_SharesIffCommonPoolOrServer ==
    \A viewer \in Accounts, target \in Accounts :
        Shares(viewer, target) <=>
            (InCommonPool(viewer, target) \/ HasServerInPoolOf(viewer, target))

\* A viewer sees a target through a server alone, while another pair shares nothing.
C11_SharedThroughServerOnly ==
    /\ \E viewer \in Accounts, target \in Accounts :
          /\ Shares(viewer, target)
          /\ ~InCommonPool(viewer, target)
          /\ HasServerInPoolOf(viewer, target)
    /\ \E viewer \in Accounts, target \in Accounts :
          /\ ~Shares(viewer, target)
          /\ pool_contributors # {}

\* u has a contributor row in pool p.
ContributesTo(u, p) == \E c \in pool_contributors : c.pool_id = p.id /\ c.user_id = u

\* C12: two distinct users of whom each is the owner or a contributor of the
\* same pool share that pool in both directions: users_share_pool(a, b) and
\* users_share_pool(b, a) are both true.
C12_PoolMembersShareBothWays ==
    \A p \in pools, a \in Accounts, b \in Accounts :
        (a # b /\ MemberOf(a, p) /\ MemberOf(b, p)) => (Shares(a, b) /\ Shares(b, a))

\* A pool has two contributors that are not its owner, next to its owner.
C12_TwoContributorsAndOwner ==
    \E p \in pools, a \in Accounts, b \in Accounts :
        /\ a # b
        /\ a # p.owner_id /\ ContributesTo(a, p)
        /\ b # p.owner_id /\ ContributesTo(b, p)
        /\ Shares(a, b) /\ Shares(b, p.owner_id)

\* C13: the server branch is one-directional. If V owns a server assigned to a
\* pool of which T is owner or contributor, users_share_pool(V, T) is true; and
\* when V is in no pool that T owns or contributes to and T owns no server
\* assigned to a pool of V, users_share_pool(T, V) is false.
C13_ServerBranchOneWay ==
    \A V \in Accounts, T \in Accounts :
        /\ HasServerInPoolOf(V, T) => Shares(V, T)
        /\ (~InCommonPool(V, T) /\ ~HasServerInPoolOf(T, V)) => ~Shares(T, V)

\* V sees T, a mere contributor of the pool V's server is assigned to, and T
\* does not see V.
C13_SeenOneWayOnly ==
    \E V \in Accounts, T \in Accounts, p \in pools :
        /\ HasServerInPoolOf(V, T)
        /\ ContributesTo(T, p) /\ p.owner_id # T
        /\ \E s \in servers, spa \in server_pool_assignments :
              s.owner_id = V /\ spa.server_id = s.id /\ spa.pool_id = p.id
        /\ ~InCommonPool(V, T)
        /\ Shares(V, T)
        /\ ~Shares(T, V)

\* u is the owner or a contributor of at least one pool.
InSomePool(u) == \E p \in pools : MemberOf(u, p)

\* C14 as stated: users_share_pool(u, u) is true for every user u, in every
\* state of the store.
C14_EveryUserSharesWithSelf == \A u \in Accounts : Shares(u, u)

\* C14, amended: users_share_pool(u, u) is true exactly for the users that own
\* or contribute to at least one pool; a user in no pool sees their own
\* profile through the policy's other disjunct, auth.uid() = user_id.
C14_PoolMembersShareWithSelf ==
    \A u \in Accounts :
        /\ Shares(u, u) <=> InSomePool(u)
        /\ CanViewProfile(pools, pool_contributors, servers, server_pool_assignments,
                          u, u)

\* The owner of a pool without contributors shares with themselves, while a
\* user in no pool, owner of an assigned server, does not.
C14_SelfWithAndWithoutPool ==
    /\ \E u \in Accounts, p \in pools :
          /\ p.owner_id = u
          /\ \A c \in pool_contributors : c.pool_id # p.id
          /\ \A q \in pools : MemberOf(u, q) => q = p
          /\ Shares(u, u)
    /\ \E u \in Accounts, s \in servers, spa \in server_pool_assignments :
          /\ s.owner_id = u /\ spa.server_id = s.id
          /\ ~InSomePool(u)
          /\ ~Shares(u, u)

(* ------------------------------------------------ properties of the routes *)
\* The handler's outcome leaves the store as `st` has it.
StoreUntouched(st, out) ==
    /\ out.pools = st.pools
    /\ out.pool_contributors = st.pool_contributors
    /\ out.unusedIds = st.unusedIds

\* Register requests naming a pool id that no pool has, with every choice of
\* the resource fields.
UnknownPoolRegisters ==
    {RegisterRequest(u, "p9", res) : u \in Users, res \in UNION {RegisterResources(v) : v \in Users}}

\* C15: a Register whose pool_id names no pool is answered 404 and creates or
\* changes no contributor row and no pool's totals.
C15_UnknownPoolRegisterNotFound ==
    Idle =>
        \A req \in RegisterRequests \cup UnknownPoolRegisters :
            (Has(req.body, "pool_id") /\ \A p \in pools : p.id # req.body.pool_id) =>
                LET out == Serve(Current, req)
                IN  /\ out.response.status = 404
                    /\ ErrorIs(out.response, "Pool not found")
                    /\ StoreUntouched(Current, out)

\* A Register was answered 404 while the store held an online row that its
\* pool's totals count and an id for a new row.
C15_RegisterAnsweredNotFound ==
    /\ response.status = 404
    /\ ErrorIs(response, "Pool not found")
    /\ unusedIds # {}
    /\ \E c \in pool_contributors, p \in pools :
          c.pool_id = p.id /\ c.status = "online" /\ p.total_cpu_cores > 0

\* C16: a successful Register answers "Agent registered successfully" exactly
\* when no row existed for (pool_id, caller), and "Agent reconnected to pool"
\* exactly when one existed; on a reconnect the contributor_id it returns is
\* the existing row's id, and that row is still the pair's only one.
C16_MessageTellsFreshFromReconnect ==
    Idle =>
        \A req \in RegisterRequests :
            LET out == Serve(Current, req)
                rows == IF Has(req.body, "pool_id")
                        THEN RowsOfPair(pool_contributors, req.body.pool_id, req.auth)
                        ELSE {}
            IN  out.response.status = 200 =>
                    /\ MessageIs(out.response, "Agent registered successfully") <=> rows = {}
                    /\ MessageIs(out.response, "Agent reconnected to pool") <=> rows # {}
                    /\ \A c \in rows :
                          /\ out.response.body.contributor_id = c.id
                          /\ RowsOfPair(out.pool_contributors, c.pool_id, c.user_id)
                                 = {d \in out.pool_contributors : d.id = c.id}
                    /\ rows = {} =>
                          /\ \A c \in pool_contributors :
                                c.id # out.response.body.contributor_id
                          /\ \E d \in out.pool_contributors :
                                d.id = out.response.body.contributor_id

\* A Register was answered as a reconnect, with the id of the caller's row,
\* while the store held another row as well.
C16_ReconnectAnswered ==
    /\ MessageIs(response, "Agent reconnected to pool")
    /\ \E c \in pool_contributors, d \in pool_contributors :
          /\ c.id = response.body.contributor_id
          /\ d.id # c.id

GetPoolRequest(user, poolId) == Request("GET", "/pool/", poolId, user, EmptyBody)

\* C17: GetPool answers any authenticated caller, for any existing pool, with
\* the pool's full row, invite_code included, whether or not the caller owns
\* the pool or contributes to it and whether or not the pool is public; it
\* answers 404 only when no pool has the id. It changes nothing.
C17_GetPoolReturnsFullRowToAnyone ==
    Idle =>
        \A u \in Users, id \in PoolIds \cup {"p9"} :
            LET out == Serve(Current, GetPoolRequest(u, id))
                found == {p \in pools : p.id = id}
            IN  /\ StoreUntouched(Current, out)
                /\ \A p \in found :
                      /\ out.response.status = 200
                      /\ out.response.body = p
                      /\ Has(out.response.body, "invite_code")
                /\ out.response.status = 404 <=> found = {}

\* GetPool answered with the row of a private pool, invite code included, and
\* answers the same to a user who neither owns the pool nor contributes to it.
C17_PrivatePoolShownToStranger ==
    \E p \in pools, u \in Users :
        /\ response.status = 200
        /\ response.body = p
        /\ ~p.is_public
        /\ response.body.invite_code = "CODE1"
        /\ ~MemberOf(u, p)
        /\ pool_contributors # {}
        /\ Serve(Current, GetPoolRequest(u, p.id)).response = response

InviteCodes == {"CODE1", "CODE2", "NOCODE"}
LookupInviteRequest(user, code) == Request("POST", "/join/", code, user, EmptyBody)

ListPoolsRequest(user) == Request("GET", "/pools", "", user, EmptyBody)

\* C19: ListPools answers with owned_pools, exactly the pools the caller owns,
\* and contributed_pools, exactly the pools in which the caller has a
\* contributor row, one entry per row; it lists no other user's pools or
\* contributions and changes no state.
C19_ListPoolsListsOwnOnly ==
    Idle =>
        \A u \in Users :
            LET out == Serve(Current, ListPoolsRequest(u))
                owned == out.response.body.owned_pools
                contributed == out.response.body.contributed_pools
                mine == {c \in pool_contributors : c.user_id = u}
            IN  /\ StoreUntouched(Current, out)
                /\ out.response.status = 200
                /\ owned = {PoolSummary(p) : p \in {q \in pools : q.owner_id = u}}
                /\ BagToSet(contributed) =
                      {PoolSummary(p) : p \in {q \in pools : ContributesTo(u, q)}}
                /\ BagCardinality(contributed) = Cardinality(mine)
                /\ \A p \in pools :
                      BagIn(PoolSummary(p), contributed) =>
                          contributed[PoolSummary(p)] =
                              Cardinality({c \in mine : c.pool_id = p.id})

\* ListPools answered a user who owns one pool and contributes to the other,
\* while another user's row in the first pool stayed unlisted.
C19_OwnListedOthersNot ==
    \E p \in pools, q \in pools, c \in pool_contributors :
        /\ response.status = 200
        /\ Has(response.body, "owned_pools")
        /\ response.body.owned_pools = {PoolSummary(p)}
        /\ BagToSet(response.body.contributed_pools) = {PoolSummary(q)}
        /\ q # p
        /\ c.pool_id = p.id /\ c.user_id # p.owner_id

\* C20: in every reachable state every pool_contributors row has status
\* 'online' or 'offline', whatever status the Heartbeat requests carried.
C20_StatusOnlineOrOffline ==
    \A c \in pool_contributors : c.status \in {"online", "offline"}

(* ------------------------------------------- properties of the pages' deletes *)
\* C21: a pool_contributors row can be deleted only by the owner of the row's
\* pool or by the user the row belongs to; a delete attempted by any other
\* user removes no row.
C21_OnlyOwnerOrSelfDeletes ==
    \A u \in Accounts, i \in ContributorIds :
        LET left == DeleteContributor(pools, pool_contributors, u, i)
        IN  /\ left \subseteq pool_contributors
            /\ \A c \in pool_contributors \ left :
                  /\ c.id = i
                  /\ c.user_id = u \/ \E p \in pools : p.id = c.pool_id /\ p.owner_id = u
            /\ (\A c \in pool_contributors :
                    c.user_id # u /\ \A p \in pools : p.id = c.pool_id => p.owner_id # u)
                  => left = pool_contributors

\* A row has been deleted, and of the rows left one is protected from a user
\* who is neither its pool's owner nor its user, while its pool's owner, who
\* is not its user, may delete it.
C21_DeletedAndProtected ==
    /\ \E i \in ContributorIds : i \notin unusedIds /\ \A c \in pool_contributors : c.id # i
    /\ \E c \in pool_contributors, u \in Accounts, o \in Accounts :
          /\ c.user_id # u /\ c.user_id # o
          /\ ~IsPoolOwner(pools, c.pool_id, u)
          /\ IsPoolOwner(pools, c.pool_id, o)
          /\ c \in DeleteContributor(pools, pool_contributors, u, c.id)
          /\ c \notin DeleteContributor(pools, pool_contributors, o, c.id)

(* ------------------------------------ properties of failures and exceptions *)
\* The authenticated requests served under faults, of every route.
AuthenticatedRequests ==
    FaultyRegisterRequests \cup FaultyHeartbeatRequests \cup DisconnectRequests
    \cup ListPoolsRequests \cup GetPoolRequests \cup LookupInviteRequests
    \cup UnknownRequests
    \cup {Request("POST", "/register", "", u, EmptyBody) : u \in Users}

\* C22: every authenticated request produces exactly one response: an
\* exception raised at any point of the handler (the body that does not parse,
\* an auth or store call that throws) is answered with 500 and the body
\* {error: 'Internal server error'}, and does not leave the handler.
C22_ExceptionsAnsweredGenerically ==
    Idle =>
        \A req \in AuthenticatedRequests, fault \in Faults :
            LET out == ServeUnder(Current, req, fault)
            IN  /\ out.response # NoResponse
                /\ out.response.status \in {200, 400, 404, 500}
                /\ (fault \in Throws /\ Strikes(Current, req, fault)) =>
                      /\ out.response.status = 500
                      /\ out.response.body = [error |-> "Internal server error"]

\* A request was answered with the generic 500 while the store held rows, and
\* every kind of exception strikes some request in this state.
C22_ExceptionAnswered ==
    /\ response = InternalServerError
    /\ pool_contributors # {}
    /\ \A fault \in Throws :
          \E req \in AuthenticatedRequests : Strikes(Current, req, fault)

(* ------------------------------------------ properties of racing registrations *)
\* The three resource values a Register body stands for.
RegisteredValues(b) ==
    <<Num(FieldOrZero(b, "cpu_cores")), Num(FieldOrZero(b, "ram_gb")),
      Num(FieldOrZero(b, "storage_gb"))>>
ValuesOfRow(c) == <<c.cpu_cores, c.ram_gb, c.storage_gb>>

\* C23: of two first-time Register calls for the same (pool, caller) that both
\* observed no row, exactly one inserts: the call whose insert finds the pair's
\* row already there fails on the uniqueness constraint, is not retried as an
\* update, is answered 500 and changes nothing, so that the single row holds
\* the values of the call that inserted it.
C23_LosingInsertNotRetried ==
    [][\A a \in Agents :
          (calls[a].pc = "write_row" /\ calls[a].rows = {} /\ calls'[a] # calls[a]) =>
              LET before == RowsOfPair(pool_contributors, calls[a].pool_id, calls[a].user)
                  after == RowsOfPair(pool_contributors', calls[a].pool_id, calls[a].user)
              IN  IF before # {}
                  THEN /\ calls'[a].pc = "idle"
                       /\ calls'[a].status = 500
                       /\ pool_contributors' = pool_contributors
                       /\ pools' = pools
                  ELSE /\ Cardinality(after) = 1
                       /\ \A c \in after :
                             /\ ValuesOfRow(c) = RegisteredValues(calls[a].body)
                             /\ c.id = calls'[a].inserted
      ]_vars

\* A Register that had observed no row was answered 500; the pair's single
\* row holds the values of the other agent's call, not those the refused call
\* carried.
C23_LoserAnswered500 ==
    \E a \in Agents, b \in Agents, c \in pool_contributors :
        /\ a # b
        /\ calls[a].pc = "idle" /\ calls[a].status = 500 /\ calls[a].rows = {}
        /\ calls[b].user = calls[a].user /\ calls[b].pool_id = calls[a].pool_id
        /\ RowsOfPair(pool_contributors, calls[a].pool_id, calls[a].user) = {c}
        /\ ValuesOfRow(c) = RegisteredValues(calls[b].body)
        /\ ValuesOfRow(c) # RegisteredValues(calls[a].body)

(* ---------------------------------------- properties of the handlers' frames *)
\* The pool of the caller's row that the request names.
PoolOfNamedRow(cs, req) ==
    {c.pool_id : c \in OwnedById(cs, req.body.contributor_id, req.auth)}

\* C24: a successful Heartbeat recomputes the totals of the contributor's pool
\* if and only if the request carries at least one of cpu_cores, ram_gb,
\* storage_gb; a Heartbeat carrying a status alone, or no optional field,
\* leaves every pool's totals unchanged, also when it switches the contributor
\* between offline and online.
C24_TotalsRecomputedIffResources ==
    Idle =>
        \A req \in HeartbeatRequests \cup StatusHeartbeatRequests :
            LET out == Serve(Current, req)
                carries == \E f \in Resources : Has(req.body, f)
            IN  out.response.status = 200 =>
                    /\ carries <=> "pools" \in out.accessed
                    /\ carries =>
                          \A p \in out.pools :
                              p.id \in PoolOfNamedRow(pool_contributors, req) =>
                                  TotalsOf(p) = SumsOf(out.pool_contributors, p.id)
                    /\ ~carries => out.pools = pools

\* A status-only heartbeat was received and did not touch the pools relation:
\* a row it left offline is still counted in its pool's totals, or a row it
\* left online is not.
C24_StatusOnlyLeftTotalsStale ==
    /\ MessageIs(response, "Heartbeat received")
    /\ accessed = {"pool_contributors"}
    /\ \E p \in pools : TotalsOf(p) # SumsOf(pool_contributors, p.id)
    /\ \E c \in pool_contributors : c.status = "offline" /\ c.last_seen = now

\* C25: a successful Disconnect sets the caller's row to 'offline' and
\* refreshes its last_seen, leaves the row's cpu_cores, ram_gb and storage_gb
\* and every other row unchanged, and leaves the pools' totals unchanged: they
\* keep counting the disconnected row until a Register or a resource-bearing
\* Heartbeat on the pool recomputes them.
C25_DisconnectLeavesTotals ==
    Idle =>
        \A req \in DisconnectRequests :
            LET out == Serve(Current, req)
                mine == IF Has(req.body, "contributor_id")
                        THEN OwnedById(pool_contributors, req.body.contributor_id, req.auth)
                        ELSE {}
            IN  out.response.status = 200 =>
                    /\ mine # {}
                    /\ out.pools = pools
                    /\ out.pool_contributors =
                          (pool_contributors \ mine) \cup
                              {[c EXCEPT !.status = "offline", !.last_seen = now] : c \in mine}
                    /\ \A c \in mine, p \in out.pools :
                          (p.id = c.pool_id /\ c.status = "online"
                           /\ TotalsOf(p) = SumsOf(pool_contributors, p.id)
                           /\ Val(c.cpu_cores) > 0) =>
                              /\ TotalsOf(p) # SumsOf(out.pool_contributors, p.id)
                              /\ \A u \in Users : \A res \in RegisterResources(u) :
                                    LET next == Serve(After(out, now),
                                                      RegisterRequest(u, p.id, res))
                                    IN  \A q \in next.pools :
                                            q.id = p.id =>
                                                TotalsOf(q) = SumsOf(next.pool_contributors, q.id)

\* An agent was disconnected at a later time than its row was last seen: the
\* row is offline with its resources, which its pool's totals still count.
C25_DisconnectedStillCounted ==
    /\ MessageIs(response, "Agent disconnected")
    /\ \E c \in pool_contributors, p \in pools :
          /\ c.pool_id = p.id
          /\ c.status = "offline" /\ c.last_seen = now /\ now > 1
          /\ Val(c.cpu_cores) > 0
          /\ p.total_cpu_cores >= Val(c.cpu_cores)
          /\ TotalsOf(p) # SumsOf(pool_contributors, p.id)

\* C26: if the aggregator's read of the online contributors or its write of
\* the pool totals fails during a Register or Heartbeat, the contributor-row
\* change the request made stays committed, the request is still answered
\* with success, and the pools' totals keep their previous values.
C26_AggregatorFailureKeepsRowChange ==
    Idle =>
        \A req \in RegisterRequests \cup HeartbeatRequests \cup FaultyRegisterRequests
                   \cup FaultyHeartbeatRequests :
            \A fault \in Failures :
                LET out == ServeUnder(Current, req, fault)
                    unfailing == Serve(Current, req)
                IN  unfailing.response.status = 200 =>
                        /\ out.response = unfailing.response
                        /\ out.pool_contributors = unfailing.pool_contributors
                        /\ "pools" \in unfailing.accessed => out.pools = pools

\* A registration was answered with success, its row is online with the
\* resources the agent reported, and the pool's totals are still all zero.
C26_RegisteredWithoutTotals ==
    /\ MessageIs(response, "Agent registered successfully")
    /\ \E c \in pool_contributors, p \in pools :
          /\ c.id = response.body.contributor_id
          /\ c.pool_id = p.id
          /\ c.status = "online"
          /\ Val(c.cpu_cores) > 0
          /\ TotalsOf(p) = <<0, 0, 0>>

(* --------------------------------------------- properties of server assignments *)
\* C27: a user V who is neither owner nor contributor of pool P cannot, by
\* creating a server of their own and assigning it to a pool, make
\* users_share_pool(V, T) true for a member T of P with whom V shares no pool.
C27_StrangerCannotSeeMembers ==
    \A V \in Accounts, T \in Accounts, P \in pools :
        (/\ ~MemberOf(V, P)
         /\ MemberOf(T, P)
         /\ ~InCommonPool(V, T))
        => ~Shares(V, T)

(* ------------------------------------------------ properties of error answers *)
\* The requests of every route, with and without credentials.
AnsweredRequests ==
    AuthenticatedRequests \cup RegisterRequests \cup HeartbeatRequests
    \cup UnauthorizedRequests

\* The exception is raised inside updatePoolTotals, after the row write.
ThrownByAggregator(st, req, fault) ==
    /\ fault \in {"aggregator read throws", "aggregator write throws"}
    /\ Strikes(st, req, fault)

\* C28 as stated: every Agent API request answered with an error status (400,
\* 401, 404 or 500) has left pool_contributors and pools exactly as they were
\* before the request.
C28_ErrorAnswerLeavesStore ==
    Idle =>
        \A req \in AnsweredRequests, fault \in Faults :
            LET out == ServeUnder(Current, req, fault)
            IN  out.response.status \in {400, 401, 404, 500} =>
                    /\ out.pools = pools
                    /\ out.pool_contributors = pool_contributors

\* C28, amended: every request answered with an error status has left pools
\* exactly as they were, and pool_contributors too unless the error is the 500
\* 'Internal server error' of an exception raised in updatePoolTotals: then the
\* row change of the Register or Heartbeat stays committed.
C28_ErrorAnswerLeavesStoreButAggregator ==
    Idle =>
        \A req \in AnsweredRequests, fault \in Faults :
            LET out == ServeUnder(Current, req, fault)
            IN  out.response.status \in {400, 401, 404, 500} =>
                    /\ out.pools = pools
                    /\ IF ThrownByAggregator(Current, req, fault)
                       THEN /\ out.response = InternalServerError
                            /\ out.pool_contributors = Serve(Current, req).pool_contributors
                       ELSE out.pool_contributors = pool_contributors

\* A request was answered 'Internal server error' after its row write: a row
\* last seen now is online with resources no pool total counts.
C28_ErrorAfterRowWrite ==
    /\ response = InternalServerError
    /\ "pool_contributors" \in accessed
    /\ \E c \in pool_contributors, p \in pools :
          /\ c.pool_id = p.id /\ c.status = "online" /\ Val(c.cpu_cores) > 0
          /\ TotalsOf(p) = <<0, 0, 0>>

\* The pool a successful request is about: the one a Register names, or the
\* one of the caller's row a Heartbeat or Disconnect names.
PoolsOfRequest(cs, req) ==
    IF Has(req.body, "pool_id") THEN {req.body.pool_id}
    ELSE IF Has(req.body, "contributor_id") THEN PoolOfNamedRow(cs, req)
    ELSE {}

\* C29: a successful Register, Heartbeat or Disconnect by caller U on a
\* contributor row of pool P changes no pool_contributors row other than U's
\* own row in P, deletes no row, and changes no pool's totals other than P's.
C29_OnlyOwnRowAndPoolChange ==
    Idle =>
        \A req \in RegisterRequests \cup HeartbeatRequests \cup DisconnectRequests
                   \cup StatusHeartbeatRequests :
            LET out == Serve(Current, req)
                P == PoolsOfRequest(pool_contributors, req)
            IN  out.response.status = 200 =>
                    /\ \A c \in pool_contributors :
                          (c.user_id # req.auth \/ c.pool_id \notin P) =>
                              c \in out.pool_contributors
                    /\ \A c \in pool_contributors :
                          \E d \in out.pool_contributors : d.id = c.id
                    /\ \A d \in out.pool_contributors :
                          (\A c \in pool_contributors : c.id # d.id) =>
                              (d.user_id = req.auth /\ d.pool_id \in P)
                    /\ \A p \in pools : p.id \notin P => p \in out.pools
                    /\ {p.id : p \in out.pools} = {p.id : p \in pools}

\* A request of a user succeeded while another user's row, last seen earlier,
\* was online in the same pool, whose totals are not the sums of its online rows.
C29_OthersLeftAlone ==
    /\ response.status = 200
    /\ "pool_contributors" \in accessed
    /\ \E c \in pool_contributors, d \in pool_contributors :
          /\ c.pool_id = d.pool_id /\ c.user_id # d.user_id
          /\ c.status = "online" /\ d.last_seen = now
          /\ c.last_seen < now
          /\ \E p \in pools :
                p.id = c.pool_id /\ TotalsOf(p) # SumsOf(pool_contributors, p.id)

(* ------------------------------------------------ properties of the numbers *)
\* C30: in every reachable state every contributor row's cpu_cores, ram_gb
\* and storage_gb and every pool's three totals are greater than or equal to
\* 0, whatever numeric values Register and Heartbeat requests carry.
C30_NothingNegative ==
    /\ \A c \in pool_contributors :
          Val(c.cpu_cores) >= 0 /\ Val(c.ram_gb) >= 0 /\ Val(c.storage_gb) >= 0
    /\ \A p \in pools :
          p.total_cpu_cores >= 0 /\ p.total_ram_gb >= 0 /\ p.total_storage_gb >= 0

====
